---- MODULE Spec2Model ----
(***************************************************************************)
(* Model of the DEX aggregator: the off-chain distribution optimizer       *)
(* (solver/src/dpSolver.ts and the reference DP of the documentation) and  *)
(* the on-chain settlement engine (UniswapV3DexRouter.sol).                *)
(***************************************************************************)
EXTENDS Integers, Sequences, FiniteSets, TLC

(***************************************************************************)
(* Bounds of the model.                                                    *)
(***************************************************************************)
\* the number of venues aggregateTrade quotes: the fee tiers LOW, MEDIUM, HIGH
NumFeeTiers == 3
\* largest number of parts of a generated quote matrix (row length - 1)
MaxParts == 2
\* largest quoted output of a generated quote matrix
MaxQuote == 1

\* largest number of routes (legs) of one aggregateSwap call
MaxLegs == 2
\* largest number of calls of the router's external functions in one behaviour
\* (aggregateSwap, nested calls included, and callbacks not made by a swap)
MaxCalls == 2
\* block.timestamp; deadlines are drawn around it
CurrentTime == 1
\* the modulus of uint256 arithmetic, scaled down from 2^256
UintModulus == 16

VARIABLES
  amounts,    \* optimizer: the quote matrix handed to the optimizer
  optPc,      \* optimizer: "ready" before the call, "done" after it
  result,     \* optimizer: what dpSolver.findBestDistribution returned
  refResult,  \* optimizer: what the reference DP returned on the same matrix
  trade,      \* aggregateTrade: the run in progress (its position and locals)
  probe,      \* utilities: the isContractExist / isPoolExist / getPoolAddress call in progress
  bal,        \* ledger: bal[asset][account]
  payer,      \* router: transient storage slot PAYER_T_SLOT (0 = empty)
  stack,      \* the aggregateSwap invocations in progress, innermost last
  ret,        \* how the aggregateSwap invocation that returned in the last step ended
  cb,         \* what the uniswapV3SwapCallback invocation of the last step did
  calls       \* number of aggregateSwap calls made so far

optVars == <<amounts, optPc, result, refResult, trade, probe>>
setVars == <<bal, payer, stack, ret, cb, calls>>
vars == <<amounts, optPc, result, refResult, trade, probe, bal, payer, stack, ret, cb, calls>>

(***************************************************************************)
(* JavaScript number semantics needed by dpSolver.ts: a value is a number, *)
(* undefined (a read past the end of an array), NaN or -Infinity.          *)
(***************************************************************************)
Num(n) == [k |-> "number", v |-> n]
Undefined == [k |-> "undefined", v |-> 0]
NaN == [k |-> "NaN", v |-> 0]
NegInfinity == [k |-> "-Infinity", v |-> 0]

\* a + b on JS values: undefined converts to NaN, NaN is absorbing
JsAdd(a, b) ==
  IF a.k \in {"undefined", "NaN"} \/ b.k \in {"undefined", "NaN"} THEN NaN
  ELSE IF a.k = "-Infinity" \/ b.k = "-Infinity" THEN NegInfinity
  ELSE Num(a.v + b.v)

\* a > b on JS values: false as soon as one side converts to NaN
JsGt(a, b) ==
  IF a.k \in {"undefined", "NaN"} \/ b.k \in {"undefined", "NaN"} THEN FALSE
  ELSE IF a.k = "-Infinity" THEN FALSE
  ELSE IF b.k = "-Infinity" THEN TRUE
  ELSE a.v > b.v

\* amounts[p][j] with 0-based p and j; a read past the end of the row is undefined
At(m, p, j) ==
  IF p + 1 \in DOMAIN m /\ j + 1 \in DOMAIN m[p + 1]
  THEN Num(m[p + 1][j + 1]) ELSE Undefined

(***************************************************************************)
(* dpSolver.ts: findBestDistribution(amounts).                             *)
(***************************************************************************)
\* const pools = amounts.length
pools(m) == Len(m)
\* const parts = amounts[0].length
partsRowLengthLessOne(m) == Len(m[1]) - 1

parts(m) == Len(m[1])

\* line 5: !amounts[0], true of a list without a first row
NoPoolsPassedOrOne(m) == Len(m) <= 1

NoPoolsPassed(m) == m = <<>>

\* the curPart loop of one cell (p, s): acc is (answers[p][s], parents[p][s])
RECURSIVE SweepCurPart(_, _, _, _, _)
SweepCurPart(m, p, s, curPart, acc) ==
  IF curPart > s THEN acc
  ELSE LET preParts == s - curPart
           cand == JsAdd(At(m, p, curPart), At(m, p - 1, preParts))
       IN SweepCurPart(m, p, s, curPart + 1,
            IF JsGt(cand, At(m, p - 1, s))
            THEN [answer |-> cand, parent |-> preParts]
            ELSE acc)

\* answers[p][s] and parents[p][s] when the DP loops have finished
RECURSIVE Cell(_, _, _)
Cell(m, p, s) ==
  IF p = 0 THEN [answer |-> At(m, 0, s), parent |-> 0]
  ELSE SweepCurPart(m, p, s, 1, [answer |-> Cell(m, p - 1, s).answer, parent |-> s])

\* the reconstruction loop: for (p = pools-1; p >= 0 && partsLeft > 0; p--)
RECURSIVE Reconstruct(_, _, _, _)
Reconstruct(m, p, partsLeft, distribution) ==
  IF ~(p >= 0 /\ partsLeft > 0) THEN distribution
  ELSE LET par == Cell(m, p, partsLeft).parent
       IN Reconstruct(m, p - 1, par,
            [distribution EXCEPT ![p + 1] = partsLeft - par])

NoResult == [threw |-> FALSE, totalAmountOut |-> Undefined, distribution |-> <<>>]

findBestDistribution(m) ==
  IF NoPoolsPassed(m) THEN [threw |-> TRUE, totalAmountOut |-> Undefined, distribution |-> <<>>]
  ELSE [threw |-> FALSE,
        totalAmountOut |-> Cell(m, pools(m) - 1, parts(m)).answer,
        distribution |-> Reconstruct(m, pools(m) - 1, parts(m),
                                     [i \in 1..pools(m) |-> 0])]

(***************************************************************************)
(* The reference DP of the documentation: findBestDistribution(s, amounts) *)
(***************************************************************************)
VERY_NEGATIVE_VALUE == -1000000

\* the k loop of one cell (i, j): acc is (answer[i][j], parent[i][j])
\* a sweep that lets a later k win a tie (>= in place of >)
RECURSIVE RefSweepTiesLast(_, _, _, _, _, _)
RefSweepTiesLast(m, prev, i, j, k, acc) ==
  IF k > j THEN acc
  ELSE LET candidate == prev[j - k + 1] + m[i + 1][k + 1]
       IN RefSweepTiesLast(m, prev, i, j, k + 1,
            IF candidate >= acc.answer
            THEN [answer |-> candidate, parent |-> j - k]
            ELSE acc)

RECURSIVE RefSweep(_, _, _, _, _, _)
RefSweep(m, prev, i, j, k, acc) ==
  IF k > j THEN acc
  ELSE LET candidate == prev[j - k + 1] + m[i + 1][k + 1]
       IN RefSweep(m, prev, i, j, k + 1,
            IF candidate > acc.answer
            THEN [answer |-> candidate, parent |-> j - k]
            ELSE acc)

\* row i of the tables answer and parent, for j = 0..s
RECURSIVE RefRow(_, _, _)
RefRow(m, s, i) ==
  IF i = 0 THEN [j \in 1..(s + 1) |-> [answer |-> m[1][j], parent |-> 0]]
  ELSE LET below == RefRow(m, s, i - 1)
           prev == [j \in 1..(s + 1) |-> below[j].answer]
       IN [j \in 1..(s + 1) |->
             RefSweep(m, prev, i, j - 1, 1, [answer |-> prev[j], parent |-> j - 1])]

RECURSIVE RefReconstruct(_, _, _, _, _)
RefReconstruct(m, s, curExchange, partsLeft, distribution) ==
  IF ~(curExchange >= 0 /\ partsLeft > 0) THEN distribution
  ELSE LET par == RefRow(m, s, curExchange)[partsLeft + 1].parent
       IN RefReconstruct(m, s, curExchange - 1, par,
            [distribution EXCEPT ![curExchange + 1] = partsLeft - par])

refFindBestDistribution(s, m) ==
  LET n == Len(m)
      last == RefRow(m, s, n - 1)[s + 1].answer
  IN [returnAmount |-> IF last = VERY_NEGATIVE_VALUE THEN 0 ELSE last,
      distribution |-> RefReconstruct(m, s, n - 1, s, [i \in 1..n |-> 0])]

NoRefResult == [returnAmount |-> 0, distribution |-> <<>>]

(***************************************************************************)
(* UniswapV3DexRouter.sol: accounts, assets and the identity derivation.   *)
(***************************************************************************)
ZeroAddress == 0
\* two assets, TokenA < TokenB as addresses
TokenA == 1
TokenB == 2
\* two callers of aggregateSwap
Alice == 3
Bob == 4
\* the router contract itself
Router == 5
\* an account that is no pool of the factory
Rogue == 6
\* the fee tiers routes are built with
FeeLow == 500
FeeMedium == 3000

\* the amountIn values of routes, the deliveries of a venue and the
\* minAmountOut values; every user and every pool holds 1 of every asset at
\* the start
AmountsIn == {1}
Deliveries == {0, 1}
MinAmountsOut == {0, 1, 2}
\* the route counts of an aggregateSwap call made by re-entry
NestedLegCounts == {0, 1}
\* the amount0Delta and amount1Delta values of a callback not made by a swap
CallbackAmounts == {-1, 0, 1}

Tokens == {TokenA, TokenB}
Users == {Alice, Bob}
Fees == {FeeLow, FeeMedium}

\* computePoolAddress: reverts unless token0 < token1, otherwise the CREATE2
\* address, an injective function of (token0, token1, poolFee)
computePoolAddressAnyOrder(token0, token1, poolFee) ==
  [reverted |-> FALSE,
   pool |-> 1000000 + (token0 * 10 + token1) * 10000 + poolFee]

computePoolAddress(token0, token1, poolFee) ==
  IF ~(token0 < token1) THEN [reverted |-> TRUE, pool |-> ZeroAddress]
  ELSE [reverted |-> FALSE,
        pool |-> 1000000 + (token0 * 10 + token1) * 10000 + poolFee]

Pools == {computePoolAddress(TokenA, TokenB, f).pool : f \in Fees}
Accounts == Users \cup Pools \cup {Router, Rogue}

\* uint256(x) for an int256 x
Uint(x) == x % UintModulus

(***************************************************************************)
(* aggregateSwap, lines 133-141: the deadline check.                       *)
(***************************************************************************)
DeadlinePassedLate(timestamp, deadline) == timestamp >= deadline

DeadlinePassed(timestamp, deadline) == timestamp > deadline

\* line 151: require(totalAmountOut >= minAmountOut)
EnoughOutStrict(totalAmountOut, minAmountOut) == totalAmountOut > minAmountOut

EnoughOut(totalAmountOut, minAmountOut) == totalAmountOut >= minAmountOut

(***************************************************************************)
(* _swapByUniswapV3, lines 174-192: what is decided before the venue call. *)
(***************************************************************************)
zeroForOne(r) == r.tokenIn < r.tokenOut
token0(r) == IF zeroForOne(r) THEN r.tokenIn ELSE r.tokenOut
token1(r) == IF zeroForOne(r) THEN r.tokenOut ELSE r.tokenIn

\* "" when the venue may be called, otherwise the require that fails
PreSwapErrorNoPairCheck(r) ==
  IF r.tokenIn = r.tokenOut THEN "tokenIn == tokenOut"
  ELSE IF computePoolAddress(token0(r), token1(r), r.fee).reverted
       THEN "token0 must be < token1"
  ELSE ""

PreSwapError(r) ==
  IF r.tokenIn = r.tokenOut THEN "tokenIn == tokenOut"
  ELSE IF computePoolAddress(token0(r), token1(r), r.fee).reverted
       THEN "token0 must be < token1"
  ELSE IF r.pair # computePoolAddress(token0(r), token1(r), r.fee).pool
       THEN "invalid pool address"
  ELSE ""

\* line 202: the recipient handed to the venue's swap
RecipientIsRouter(sender) == Router

Recipient(sender) == sender

\* abi.encode(callbackData)
CallbackData(r) == [token0 |-> token0(r), token1 |-> token1(r), poolFee |-> r.fee]

\* the largest int256, scaled down with the modulus
Int256Max == UintModulus \div 2 - 1

\* line 209: whether -amount of the reported out-amount overflows int256
\* (checked arithmetic: the call reverts with a panic)
NegationPanics(r, amount0, amount1) ==
  (IF zeroForOne(r) THEN amount1 ELSE amount0) < -Int256Max

\* lines 147-149: unchecked { totalAmountOut += ... }
AccumulateSaturating(totalAmountOut, amountOut) ==
  IF totalAmountOut + amountOut >= UintModulus THEN UintModulus - 1
  ELSE totalAmountOut + amountOut

Accumulate(totalAmountOut, amountOut) == Uint(totalAmountOut + amountOut)

\* line 209: the output recorded for the leg
LegAmountOutOtherSide(r, amount0, amount1) ==
  IF zeroForOne(r) THEN Uint(-amount0) ELSE Uint(-amount1)

LegAmountOut(r, amount0, amount1) ==
  IF zeroForOne(r) THEN Uint(-amount1) ELSE Uint(-amount0)

(***************************************************************************)
(* uniswapV3SwapCallback, lines 233-274.                                   *)
(***************************************************************************)
\* lines 244-256: "" when the callback goes on to the payment
CallbackErrorNoCallerCheck(caller, data, boundPayer) ==
  IF computePoolAddress(data.token0, data.token1, data.poolFee).reverted
  THEN "token0 must be < token1"
  ELSE IF boundPayer = ZeroAddress THEN "no payer registered"
  ELSE ""

CallbackErrorPayerFirst(caller, data, boundPayer) ==
  IF computePoolAddress(data.token0, data.token1, data.poolFee).reverted
  THEN "token0 must be < token1"
  ELSE IF boundPayer = ZeroAddress THEN "no payer registered"
  ELSE IF caller # computePoolAddress(data.token0, data.token1, data.poolFee).pool
       THEN "invalid caller"
  ELSE ""

CallbackError(caller, data, boundPayer) ==
  IF computePoolAddress(data.token0, data.token1, data.poolFee).reverted
  THEN "token0 must be < token1"
  ELSE IF caller # computePoolAddress(data.token0, data.token1, data.poolFee).pool
       THEN "invalid caller"
  ELSE IF boundPayer = ZeroAddress THEN "no payer registered"
  ELSE ""

NoTransfer == [asset |-> ZeroAddress, from |-> ZeroAddress, to |-> ZeroAddress, amount |-> 0]

\* lines 260-272: the transferFrom the callback asks the ledger for
CallbackTransferSwapped(caller, amount0Delta, amount1Delta, data, boundPayer) ==
  IF amount0Delta > 0
  THEN [asset |-> data.token1, from |-> boundPayer, to |-> caller, amount |-> Uint(amount0Delta)]
  ELSE IF amount1Delta > 0
  THEN [asset |-> data.token0, from |-> boundPayer, to |-> caller, amount |-> Uint(amount1Delta)]
  ELSE NoTransfer

CallbackTransferAssetOneFirst(caller, amount0Delta, amount1Delta, data, boundPayer) ==
  IF amount1Delta > 0
  THEN [asset |-> data.token1, from |-> boundPayer, to |-> caller, amount |-> Uint(amount1Delta)]
  ELSE IF amount0Delta > 0
  THEN [asset |-> data.token0, from |-> boundPayer, to |-> caller, amount |-> Uint(amount0Delta)]
  ELSE NoTransfer

CallbackTransfer(caller, amount0Delta, amount1Delta, data, boundPayer) ==
  IF amount0Delta > 0
  THEN [asset |-> data.token0, from |-> boundPayer, to |-> caller, amount |-> Uint(amount0Delta)]
  ELSE IF amount1Delta > 0
  THEN [asset |-> data.token1, from |-> boundPayer, to |-> caller, amount |-> Uint(amount1Delta)]
  ELSE NoTransfer

\* lines 264 and 270: revert TransferTokenInFailed(token, payer, amountToPay)
\* for the transferFrom t the ledger refused
TransferTokenInFailed(t) ==
  [asset |-> t.asset, from |-> t.from, to |-> ZeroAddress, amount |-> t.amount]

\* lines 263 and 269: whether the callback reverts on the ledger's answer
RevertsOnLedgerAnswerIgnored(success) == FALSE

RevertsOnLedgerAnswer(success) == ~success

(***************************************************************************)
(* The Asset Ledger: transferFrom(from, to, amount) called by the router.  *)
(***************************************************************************)
\* whether owner has approved the router for asset: the users have (the
\* unlimited allowance aggregateTrade grants), pools and other accounts have not
Approved(asset, owner) == owner \in Users

LedgerAccepts(b, t) ==
  /\ b[t.asset][t.from] >= t.amount
  /\ Approved(t.asset, t.from)

Moved(b, asset, from, to, amount) ==
  [b EXCEPT ![asset] = [@ EXCEPT ![from] = @ - amount, ![to] = b[asset][to] + amount]]

(***************************************************************************)
(* The settlement engine as a state machine.  An aggregateSwap invocation  *)
(* is a frame of the stack; it is split where it hands control to external *)
(* code (the venue's swap, the ledger's transferFrom), which may call back *)
(* into the router before it returns.                                      *)
(***************************************************************************)
Route(pair, fee, tokenIn, tokenOut, amountIn) ==
  [pair |-> pair, fee |-> fee, tokenIn |-> tokenIn, tokenOut |-> tokenOut,
   amountIn |-> amountIn]

\* the routes a caller may pass; routes[i] is drawn when the loop reads it.
\* A route that names one asset twice is rejected before its pair and fee are
\* looked at (line 174), so those are not varied for it
RouteSet ==
  {r \in {Route(pair, fee, tokenIn, tokenOut, amountIn) :
            pair \in Pools \cup {Rogue}, fee \in Fees, tokenIn \in Tokens,
            tokenOut \in Tokens, amountIn \in AmountsIn} :
     r.tokenIn = r.tokenOut =>
       r.fee = FeeLow /\ r.pair = computePoolAddress(TokenA, TokenB, FeeLow).pool}

NoRoute == Route(ZeroAddress, 0, ZeroAddress, ZeroAddress, 0)
Deadlines == (CurrentTime - 1)..(CurrentTime + 1)

InitBal == [t \in Tokens |-> [a \in Accounts |->
              IF a \in Users \cup Pools THEN 1 ELSE 0]]

Snapshot == [bal |-> bal, payer |-> payer]

NoRet ==
  [outcome |-> "none", err |-> "", sender |-> ZeroAddress, rLen |-> 0,
   minAmountOut |-> 0, deadline |-> 0, legs |-> 0, totalAmountOut |-> 0,
   delivered |-> 0, rejected |-> FALSE, depth |-> 0,
   entry |-> [bal |-> InitBal, payer |-> ZeroAddress], i |-> 0, r |-> NoRoute]

\* the amounts are recorded for the callbacks that get past the checks of
\* lines 249 and 256, where the code first reads them (line 260)
NoCallback ==
  [ran |-> FALSE, direct |-> FALSE, caller |-> ZeroAddress,
   expected |-> [reverted |-> FALSE, pool |-> ZeroAddress],
   boundPayer |-> ZeroAddress,
   initiator |-> ZeroAddress, recipient |-> ZeroAddress, err |-> "",
   transfer |-> NoTransfer,
   amount0Delta |-> 0, amount1Delta |-> 0,
   data |-> [token0 |-> ZeroAddress, token1 |-> ZeroAddress, poolFee |-> 0],
   asked |-> NoTransfer, answered |-> FALSE, success |-> FALSE,
   failedWith |-> NoTransfer]

\* no aggregateTrade run
NoTrade ==
  [pc |-> "off", AmountIn |-> 0, tokenInDecimals |-> 0, i |-> 0, routes |-> <<>>,
   unresolved |-> FALSE, approveSent |-> FALSE, submitted |-> FALSE, err |-> "",
   allowance |-> 0, realized |-> 0, reported |-> Undefined]

\* no utility call
NoProbe ==
  [pc |-> "off", fn |-> "", contract |-> ZeroAddress,
   code |-> [threw |-> FALSE, value |-> ""],
   tokenIn |-> ZeroAddress, tokenOut |-> ZeroAddress, fee |-> 0,
   pool |-> [threw |-> FALSE, value |-> ZeroAddress],
   parts |-> 0, quotes |-> <<>>,
   out |-> [threw |-> FALSE, bool |-> FALSE, address |-> ZeroAddress,
            row |-> <<>>, quoted |-> 0]]

SettlementIdle ==
  /\ bal = InitBal
  /\ payer = ZeroAddress
  /\ stack = <<>>
  /\ ret = NoRet
  /\ cb = NoCallback
  /\ calls = 0

Init ==
  /\ amounts = <<>>
  /\ optPc = "off"
  /\ result = NoResult
  /\ refResult = NoRefResult
  /\ trade = NoTrade
  /\ probe = NoProbe
  /\ SettlementIdle

Top == stack[Len(stack)]
Pop == SubSeq(stack, 1, Len(stack) - 1)
SetTop(f) == [stack EXCEPT ![Len(stack)] = f]

\* external code that can call the router is running: the venue's swap up to
\* its callback (it transfers the output asset) or the ledger's transferFrom;
\* after the callback the venue only reads a balance
ExternalPcs == {"venue", "ledger"}
InExternalCode == IF stack = <<>> THEN FALSE ELSE Top.pc \in ExternalPcs

\* r is the route _swapByUniswapV3 rejected (lines 174 and 192), if the
\* invocation ended there
Returned(f, outcome, err) ==
  [outcome |-> outcome, err |-> err, sender |-> f.sender, rLen |-> f.rLen,
   minAmountOut |-> 0, deadline |-> 0, legs |-> f.legs,
   totalAmountOut |-> f.totalAmountOut, delivered |-> f.delivered,
   rejected |-> f.rejected, depth |-> Len(stack),
   entry |-> f.snap, i |-> f.i,
   r |-> IF err \in {"tokenIn == tokenOut", "invalid pool address"} THEN f.r ELSE NoRoute]

\* the innermost invocation reverts: everything it did is undone, transient
\* storage included, and control returns to its caller
Abort(f, err) ==
  /\ bal' = f.snap.bal
  /\ payer' = f.snap.payer
  /\ stack' = Pop
  /\ ret' = Returned(f, "Aborted", err)

\* lines 138-141: the value aggregateSwap stores in the payer slot
PayerAtEntryUnbound(sender) == ZeroAddress

PayerAtEntry(sender) == sender

SlippageError == "total amount out is less than min amount out"

\* aggregateSwap, lines 132-145: entry, deadline check, tstore of the payer
Enter(sender, rLen, deadline) ==
  /\ calls < MaxCalls
  /\ calls' = calls + 1
  /\ LET f == [sender |-> sender, rLen |-> rLen, i |-> 0, totalAmountOut |-> 0, pc |-> "loop",
               r |-> NoRoute, amount0 |-> 0, amount1 |-> 0, pend |-> NoTransfer,
               legs |-> 0, delivered |-> 0, rejected |-> FALSE, snap |-> Snapshot]
     IN IF DeadlinePassed(CurrentTime, deadline)
        THEN /\ ret' = [Returned(f, "Aborted", "DeadlinePassed")
                          EXCEPT !.depth = Len(stack) + 1, !.deadline = deadline]
             /\ UNCHANGED <<bal, payer, stack>>
        ELSE /\ payer' = PayerAtEntry(sender)
             /\ stack' = Append(stack, f)
             /\ ret' = [Returned(f, "Entered", "")
                          EXCEPT !.depth = Len(stack) + 1, !.deadline = deadline]
             /\ UNCHANGED bal
  /\ cb' = NoCallback
  /\ UNCHANGED optVars

\* aggregateSwap called by Alice as the first call of a transaction or after
\* an earlier call of hers has returned
AggregateSwap(rLen, deadline) ==
  /\ stack = <<>>
  /\ Enter(Alice, rLen, deadline)

\* aggregateSwap re-entered by another initiator while the venue's swap or
\* the ledger's transferFrom of a running invocation is executing
ReenterAggregateSwap(sender, rLen, deadline) ==
  /\ InExternalCode
  /\ sender # Top.sender
  /\ Enter(sender, rLen, deadline)

\* line 146: the condition of the loop over the routes
LoopStopsEarly(i, rLen) == i + 1 < rLen

LoopContinues(i, rLen) == i < rLen

\* the legs of an invocation started while an earlier one is in flight
LegStartConcurrent(r) ==
  /\ stack # <<>>
  /\ Top.pc \in {"loop", "venue"}
  /\ Top.legs < Top.rLen
  /\ PreSwapError(r) = ""
  /\ stack' = SetTop([Top EXCEPT !.pc = "venue", !.r = r, !.legs = @ + 1])
  /\ ret' = NoRet
  /\ cb' = NoCallback
  /\ UNCHANGED <<bal, payer, calls>>
  /\ UNCHANGED optVars

\* lines 146-148 and 173-207: the loop reads routes[i] and _swapByUniswapV3
\* validates it and calls the venue's swap
LegStart(r) ==
  /\ stack # <<>>
  /\ Top.pc = "loop"
  /\ LoopContinues(Top.i, Top.rLen)
  /\ IF PreSwapError(r) # ""
     THEN Abort([Top EXCEPT !.r = r], PreSwapError(r))
     ELSE /\ stack' = SetTop([Top EXCEPT !.pc = "venue", !.r = r, !.legs = @ + 1])
          /\ ret' = NoRet
          /\ UNCHANGED <<bal, payer>>
  /\ cb' = NoCallback
  /\ UNCHANGED calls
  /\ UNCHANGED optVars

\* the venue delivers out to the recipient (msg.sender of aggregateSwap, line
\* 202) and calls uniswapV3SwapCallback for the input it is owed
VenueCallsBack(out) ==
  /\ stack # <<>>
  /\ Top.pc = "venue"
  /\ out <= bal[Top.r.tokenOut][Top.r.pair]
  /\ LET f == Top
         r == f.r
         amount0 == IF zeroForOne(r) THEN r.amountIn ELSE -out
         amount1 == IF zeroForOne(r) THEN -out ELSE r.amountIn
         data == CallbackData(r)
         err == CallbackError(r.pair, data, payer)
         t == CallbackTransfer(r.pair, amount0, amount1, data, payer)
         g == [f EXCEPT !.amount0 = amount0, !.amount1 = amount1,
                        !.delivered = @ + out]
     IN /\ cb' = [ran |-> TRUE, direct |-> FALSE, caller |-> r.pair,
                  expected |-> computePoolAddress(data.token0, data.token1, data.poolFee),
                  boundPayer |-> payer, initiator |-> f.sender,
                  recipient |-> Recipient(f.sender), err |-> err,
                  transfer |-> IF err = "" THEN t ELSE NoTransfer,
                  amount0Delta |-> IF err = "" THEN amount0 ELSE 0,
                  amount1Delta |-> IF err = "" THEN amount1 ELSE 0,
                  data |-> data,
                  asked |-> IF err = "" THEN t ELSE NoTransfer,
                  answered |-> FALSE, success |-> FALSE, failedWith |-> NoTransfer]
        /\ IF err # "" THEN Abort(g, err)
           ELSE /\ bal' = Moved(bal, r.tokenOut, r.pair, Recipient(f.sender), out)
                /\ stack' = SetTop([g EXCEPT !.pc = IF t = NoTransfer THEN "paid" ELSE "ledger",
                                             !.pend = t])
                /\ ret' = NoRet
                /\ UNCHANGED payer
  /\ UNCHANGED calls
  /\ UNCHANGED optVars

\* the ledger answers the callback's transferFrom (lines 263-271)
LedgerAnswers ==
  /\ stack # <<>>
  /\ Top.pc = "ledger"
  /\ LET f == Top
         ok == LedgerAccepts(bal, f.pend)
         g == [f EXCEPT !.rejected = @ \/ ~ok]
     IN /\ IF RevertsOnLedgerAnswer(ok)
           THEN Abort(g, "TransferTokenInFailed")
           ELSE /\ bal' = IF ok THEN Moved(bal, f.pend.asset, f.pend.from, f.pend.to, f.pend.amount)
                          ELSE bal
                /\ stack' = SetTop([g EXCEPT !.pc = "paid"])
                /\ ret' = NoRet
                /\ UNCHANGED payer
        /\ cb' = [NoCallback EXCEPT
                    !.asked = f.pend, !.answered = TRUE, !.success = ok,
                    !.err = IF RevertsOnLedgerAnswer(ok) THEN "TransferTokenInFailed" ELSE "",
                    !.failedWith = IF RevertsOnLedgerAnswer(ok)
                                   THEN TransferTokenInFailed(f.pend) ELSE NoTransfer]
  /\ UNCHANGED calls
  /\ UNCHANGED optVars

\* the venue's swap returns (amount0, amount1); lines 148 and 209
VenueReturns ==
  /\ stack # <<>>
  /\ Top.pc = "paid"
  /\ IF NegationPanics(Top.r, Top.amount0, Top.amount1)
     THEN Abort(Top, "Panic")
     ELSE /\ stack' = SetTop([Top EXCEPT
               !.totalAmountOut = Accumulate(@, LegAmountOut(Top.r, Top.amount0, Top.amount1)),
               !.i = @ + 1, !.pc = "loop", !.r = NoRoute, !.pend = NoTransfer,
               !.amount0 = 0, !.amount1 = 0])
          /\ ret' = NoRet
          /\ UNCHANGED <<bal, payer>>
  /\ cb' = NoCallback
  /\ UNCHANGED calls
  /\ UNCHANGED optVars

\* the venue's swap reverts
VenueReverts ==
  /\ stack # <<>>
  /\ Top.pc \in {"venue", "paid"}
  /\ Abort(Top, "venue reverted")
  /\ cb' = NoCallback
  /\ UNCHANGED calls
  /\ UNCHANGED optVars

\* line 151: the loop is over
Finalize(minAmountOut) ==
  /\ stack # <<>>
  /\ Top.pc = "loop"
  /\ ~LoopContinues(Top.i, Top.rLen)
  /\ IF EnoughOut(Top.totalAmountOut, minAmountOut)
     THEN /\ stack' = Pop
          /\ ret' = [Returned(Top, "Committed", "") EXCEPT !.minAmountOut = minAmountOut]
          /\ UNCHANGED <<bal, payer>>
     ELSE /\ bal' = Top.snap.bal
          /\ payer' = Top.snap.payer
          /\ stack' = Pop
          /\ ret' = [Returned(Top, "Aborted", SlippageError)
                       EXCEPT !.minAmountOut = minAmountOut]
  /\ cb' = NoCallback
  /\ UNCHANGED calls
  /\ UNCHANGED optVars

\* uniswapV3SwapCallback called by any account, not from within a swap the
\* router started (lines 233-274, the ledger's answer included)
DirectCallback(caller, amount0Delta, amount1Delta, data) ==
  /\ stack = <<>> \/ InExternalCode
  /\ calls < MaxCalls
  /\ calls' = calls + 1
  /\ LET err == CallbackError(caller, data, payer)
         t == CallbackTransfer(caller, amount0Delta, amount1Delta, data, payer)
         asked == err = "" /\ t # NoTransfer
         ok == asked /\ LedgerAccepts(bal, t)
         failed == asked /\ RevertsOnLedgerAnswer(ok)
     IN /\ cb' = [ran |-> TRUE, direct |-> TRUE, caller |-> caller,
                  expected |-> computePoolAddress(data.token0, data.token1, data.poolFee),
                  boundPayer |-> payer,
                  initiator |-> IF stack = <<>> THEN ZeroAddress ELSE Top.sender,
                  recipient |-> ZeroAddress,
                  err |-> IF failed THEN "TransferTokenInFailed" ELSE err,
                  transfer |-> IF ok /\ ~failed THEN t ELSE NoTransfer,
                  amount0Delta |-> IF err = "" THEN amount0Delta ELSE 0,
                  amount1Delta |-> IF err = "" THEN amount1Delta ELSE 0,
                  data |-> data,
                  asked |-> IF asked THEN t ELSE NoTransfer,
                  answered |-> asked, success |-> ok,
                  failedWith |-> IF failed THEN TransferTokenInFailed(t) ELSE NoTransfer]
        /\ bal' = IF ok /\ ~failed THEN Moved(bal, t.asset, t.from, t.to, t.amount) ELSE bal
  /\ ret' = NoRet
  /\ UNCHANGED <<payer, stack>>
  /\ UNCHANGED optVars

\* the transaction ends: transient storage is cleared (line 52)
EndTransaction ==
  /\ stack = <<>>
  /\ payer # ZeroAddress
  /\ payer' = ZeroAddress
  /\ ret' = NoRet
  /\ cb' = NoCallback
  /\ UNCHANGED <<bal, stack, calls>>
  /\ UNCHANGED optVars

Next ==
  \/ \E rLen \in 0..MaxLegs, deadline \in Deadlines : AggregateSwap(rLen, deadline)
  \/ \E r \in RouteSet : LegStart(r)
  \/ \E out \in Deliveries : VenueCallsBack(out)
  \/ LedgerAnswers
  \/ VenueReturns
  \/ VenueReverts
  \/ \E minAmountOut \in MinAmountsOut : Finalize(minAmountOut)
  \/ EndTransaction

Spec == Init /\ [][Next]_vars

\* a step of a running invocation: of the router's own code, of the venue it
\* called or of the ledger the callback called
InvocationStep ==
  \/ \E r \in RouteSet : LegStart(r)
  \/ \E out \in Deliveries : VenueCallsBack(out)
  \/ LedgerAnswers
  \/ VenueReturns
  \/ VenueReverts
  \/ \E minAmountOut \in MinAmountsOut : Finalize(minAmountOut)

\* the router in a transaction that runs to its end: the code of the router
\* keeps executing and every call of a venue or of the ledger returns or
\* reverts
FairSpec == Init /\ [][Next]_vars /\ WF_vars(InvocationStep)

\* the data a caller of the callback may pass: the sorted pair with each
\* fee, the pair unsorted, one asset twice
CallbackDatas ==
  {[token0 |-> TokenA, token1 |-> TokenB, poolFee |-> f] : f \in Fees}
    \cup {[token0 |-> TokenB, token1 |-> TokenA, poolFee |-> FeeLow],
          [token0 |-> TokenA, token1 |-> TokenA, poolFee |-> FeeLow]}

\* the amounts a caller of the callback may pass: one positive on either
\* side, none positive, both positive
CallbackAmountPairs ==
  {p \in CallbackAmounts \X CallbackAmounts : p[1] >= p[2] \/ p = <<-1, 1>>}

\* the router with venues that hold and deliver amounts as large as an
\* int256 can report, in one settlement of one leg more than MaxLegs
LargeDeliveries == {0, Int256Max, Int256Max + 1}
LargeMinAmountsOut == {0, 1, UintModulus - 1}
LargeLegCounts == {MaxLegs + 1}

LargeBal == [t \in Tokens |-> [a \in Accounts |->
               IF a \in Pools THEN Int256Max + 1 ELSE IF a \in Users THEN 1 ELSE 0]]

LargeInit ==
  /\ amounts = <<>>
  /\ optPc = "off"
  /\ result = NoResult
  /\ refResult = NoRefResult
  /\ trade = NoTrade
  /\ probe = NoProbe
  /\ bal = LargeBal
  /\ payer = ZeroAddress
  /\ stack = <<>>
  /\ ret = NoRet
  /\ cb = NoCallback
  /\ calls = 0

LargeNext ==
  \/ \E rLen \in LargeLegCounts : calls = 0 /\ AggregateSwap(rLen, CurrentTime)
  \/ \E r \in RouteSet : LegStart(r)
  \/ \E out \in LargeDeliveries : VenueCallsBack(out)
  \/ LedgerAnswers
  \/ VenueReturns
  \/ VenueReverts
  \/ \E minAmountOut \in LargeMinAmountsOut : Finalize(minAmountOut)
  \/ EndTransaction

LargeSpec == LargeInit /\ [][LargeNext]_vars

\* the router with accounts that call its callback themselves
ForgedCallback ==
  \E caller \in Pools \cup {Rogue}, amounts01 \in CallbackAmountPairs,
     data \in CallbackDatas :
     DirectCallback(caller, amounts01[1], amounts01[2], data)

CallbackNext == Next \/ ForgedCallback

CallbackSpec == Init /\ [][CallbackNext]_vars

\* the router with venues and ledgers that call back into aggregateSwap
Reentry ==
  \E sender \in Users, rLen \in NestedLegCounts, deadline \in Deadlines :
     ReenterAggregateSwap(sender, rLen, deadline)

ReentrantNext == Next \/ Reentry

ReentrantSpec == Init /\ [][ReentrantNext]_vars

(***************************************************************************)
(* The optimizer as a state machine: a quote matrix is drawn and the two   *)
(* implementations are applied to it.                                      *)
(***************************************************************************)
\* the example of the documentation
ExampleAmounts == << <<0, 100, 200, 300>>, <<0, 150, 250, 350>>, <<0, 120, 220, 320>> >>

\* quote rows of length n+1 whose entry 0 is 0 (uniswapv3.ts quoteParts)
Rows(n) == {r \in [1..(n + 1) -> 0..MaxQuote] : r[1] = 0}

Matrices ==
  UNION {[1..K -> Rows(n)] : K \in 1..NumFeeTiers, n \in 1..MaxParts}

OptInit ==
  /\ amounts \in Matrices \cup {ExampleAmounts, <<>>}
  /\ optPc = "ready"
  /\ result = NoResult
  /\ refResult = NoRefResult
  /\ trade = NoTrade
  /\ probe = NoProbe
  /\ SettlementIdle

Optimize ==
  /\ optPc = "ready"
  /\ result' = findBestDistribution(amounts)
  /\ refResult' = IF amounts = <<>> THEN NoRefResult
                  ELSE refFindBestDistribution(Len(amounts[1]) - 1, amounts)
  /\ optPc' = "done"
  /\ UNCHANGED <<amounts, trade>>
  /\ UNCHANGED setVars
  /\ UNCHANGED probe

OptNext == Optimize

OptSpec == OptInit /\ [][OptNext]_vars

\* findBestDistribution called on matrices in which a quote may be the
\* sentinel value itself, the one way a final answer can equal the sentinel
SentinelRows(n) ==
  {r \in [1..(n + 1) -> (0..MaxQuote) \cup {VERY_NEGATIVE_VALUE}] : r[1] = 0}

SentinelMatrices ==
  UNION {[1..K -> SentinelRows(n)] : K \in 1..(NumFeeTiers - 1), n \in 1..MaxParts}

SentinelInit ==
  /\ amounts \in SentinelMatrices
  /\ optPc = "ready"
  /\ result = NoResult
  /\ refResult = NoRefResult
  /\ trade = NoTrade
  /\ probe = NoProbe
  /\ SettlementIdle

SentinelSpec == SentinelInit /\ [][OptNext]_vars

(***************************************************************************)
(* aggregator.ts: aggregateTrade as a state machine.  A run quotes the     *)
(* three fee tiers, optimizes, builds the routes, approves and submits     *)
(* aggregateSwap; every await that reaches the chain may throw.  JavaScript*)
(* doubles are taken as exact rationals.                                   *)
(***************************************************************************)
FeeHigh == 10000
\* const fees = [FeeAmount.LOW, FeeAmount.MEDIUM, FeeAmount.HIGH]
fees == <<FeeLow, FeeMedium, FeeHigh>>
\* quoteParts(swapInfo, parts = 10) and const parts = 10, scaled to the model
QuoteDefaultParts == MaxParts
TradeParts == MaxParts
RECURSIVE Pow10(_)
Pow10(d) == IF d = 0 THEN 1 ELSE 10 * Pow10(d - 1)

\* swapInfo.AmountIn, the decimals() of the input asset, swapInfo's assets
TradeAmounts == {1, 2}
DecimalsSet == {0, 1}
\* what allowance(signer, router) may answer: nothing, the total input in
\* base units, one unit less
Allowances ==
  {0} \cup {a * Pow10(d) - x : a \in TradeAmounts, d \in DecimalsSet, x \in {0, 1}}
\* the total output a settlement may realize
RealizedTotals == {0, 1, 2}
TradeTokenIn == TokenA
TradeTokenOut == TokenB

\* fromReadableAmount(num / den, decimals): parseUnits throws when the amount
\* has more fractional digits than decimals
fromReadableAmount(num, den, decimals) ==
  IF (num * Pow10(decimals)) % den # 0 THEN [threw |-> TRUE, value |-> 0]
  ELSE [threw |-> FALSE, value |-> (num * Pow10(decimals)) \div den]

\* factory.getPool(tokenIn, tokenOut, fee): the pool's address or zero
GetPoolAnswers(fee) ==
  {ZeroAddress,
   computePoolAddress(TradeTokenIn, TradeTokenOut, fee).pool}

\* getPoolAddress, lines 56-68, applied to the factory's answer
getPoolAddressNoThrow(poolAddress) == [threw |-> FALSE, value |-> poolAddress]

getPoolAddress(poolAddress) ==
  [threw |-> poolAddress = ZeroAddress, value |-> poolAddress]

\* line 134: whether venue i gets a route
WantsRouteAlways(allocation) == allocation >= 0

WantsRoute(allocation) == allocation > 0

\* line 152: routes.length === 0
NoRoutes(routes) == Len(routes) = 0

TradeInit ==
  /\ amounts = <<>>
  /\ optPc = "off"
  /\ result = NoResult
  /\ refResult = NoRefResult
  /\ trade \in {[NoTrade EXCEPT !.pc = "quote", !.AmountIn = a] : a \in TradeAmounts}
  /\ probe = NoProbe
  /\ SettlementIdle

\* a throw inside aggregateTrade is not caught: the call ends there
FailKeepsGoing(err) == trade' = [trade EXCEPT !.err = err]

Fail(err) == trade' = [trade EXCEPT !.pc = "failed", !.err = err]

\* lines 84-106: the next quoteParts call returns its row
QuoteParts(row) ==
  /\ trade.pc = "quote"
  /\ amounts' = Append(amounts, row)
  /\ trade' = [trade EXCEPT !.pc = IF Len(amounts) + 1 = NumFeeTiers
                                    THEN "optimize" ELSE "quote"]
  /\ UNCHANGED <<optPc, result, refResult>>
  /\ UNCHANGED setVars
  /\ UNCHANGED probe

\* the next quoteParts call throws
QuotePartsThrows ==
  /\ trade.pc = "quote"
  /\ Fail("quote failed")
  /\ UNCHANGED <<amounts, optPc, result, refResult>>
  /\ UNCHANGED setVars
  /\ UNCHANGED probe

\* line 109: findBestDistribution(amounts)
TradeOptimize ==
  /\ trade.pc = "optimize"
  /\ result' = findBestDistribution(amounts)
  /\ refResult' = IF amounts = <<>> THEN NoRefResult
                  ELSE refFindBestDistribution(Len(amounts[1]) - 1, amounts)
  /\ optPc' = "done"
  /\ IF findBestDistribution(amounts).threw
     THEN Fail("no pools passed in")
     ELSE trade' = [trade EXCEPT !.pc = "decimals"]
  /\ UNCHANGED amounts
  /\ UNCHANGED setVars
  /\ UNCHANGED probe

\* lines 116-128: the decimals of the assets are read
ReadDecimals(decimals, ok) ==
  /\ trade.pc = "decimals"
  /\ IF ok THEN trade' = [trade EXCEPT !.pc = "build", !.tokenInDecimals = decimals]
     ELSE Fail("decimals failed")
  /\ UNCHANGED <<amounts, optPc, result, refResult>>
  /\ UNCHANGED setVars
  /\ UNCHANGED probe

\* lines 133-150: one iteration of the route loop; poolAddress is what the
\* factory answers when it is asked
BuildRoute(poolAddress) ==
  /\ trade.pc = "build"
  /\ trade.i < Len(result.distribution)
  /\ LET allocation == result.distribution[trade.i + 1]
         fee == fees[trade.i + 1]
         amountIn == fromReadableAmount(allocation * trade.AmountIn, TradeParts,
                                        trade.tokenInDecimals)
     IN IF ~WantsRoute(allocation)
        THEN /\ poolAddress = ZeroAddress
             /\ trade' = [trade EXCEPT !.i = @ + 1]
        ELSE /\ poolAddress \in GetPoolAnswers(fee)
             /\ IF getPoolAddress(poolAddress).threw
                THEN trade' = [trade EXCEPT !.pc = "failed", !.unresolved = TRUE,
                                            !.err = "Pool does not exist"]
                ELSE IF amountIn.threw
                THEN trade' = [trade EXCEPT !.pc = "failed", !.unresolved = poolAddress = ZeroAddress,
                                            !.err = "conversion failed"]
                ELSE trade' = [trade EXCEPT
                       !.i = @ + 1,
                       !.unresolved = @ \/ poolAddress = ZeroAddress,
                       !.routes = Append(@, Route(getPoolAddress(poolAddress).value, fee,
                                                  TradeTokenIn, TradeTokenOut,
                                                  amountIn.value))]
  /\ UNCHANGED <<amounts, optPc, result, refResult>>
  /\ UNCHANGED setVars
  /\ UNCHANGED probe

\* lines 152-154: the loop is over
CheckRoutes ==
  /\ trade.pc = "build"
  /\ trade.i = Len(result.distribution)
  /\ IF NoRoutes(trade.routes) THEN Fail("No valid routes found")
     ELSE trade' = [trade EXCEPT !.pc = "approve"]
  /\ UNCHANGED <<amounts, optPc, result, refResult>>
  /\ UNCHANGED setVars
  /\ UNCHANGED probe

\* lines 157-170: the allowance is read and approve is sent if it is too low
Approve(allowance, outcome) ==
  /\ trade.pc = "approve"
  /\ LET tokenInAmount ==
           fromReadableAmount(trade.AmountIn, 1, trade.tokenInDecimals).value
     IN IF outcome = "read fails" THEN Fail("allowance failed")
        ELSE IF ~(allowance < tokenInAmount)
        THEN /\ outcome = "ok"
             /\ trade' = [trade EXCEPT !.pc = "submit", !.allowance = allowance]
        ELSE IF outcome = "tx fails"
        THEN trade' = [trade EXCEPT !.pc = "failed", !.approveSent = TRUE,
                                    !.allowance = allowance, !.err = "approve failed"]
        ELSE trade' = [trade EXCEPT !.pc = "submit", !.approveSent = TRUE,
                                    !.allowance = allowance]
  /\ UNCHANGED <<amounts, optPc, result, refResult>>
  /\ UNCHANGED setVars
  /\ UNCHANGED probe

\* lines 193-198: the totalAmountOut aggregateTrade returns, given the
\* optimizer's total and the output the settlement realized
ReportedTotalRealized(quoted, realized) == Num(realized)

ReportedTotal(quoted, realized) == quoted

\* lines 173-198: aggregateSwap is sent and its receipt awaited; realized is
\* the sum of the outputs the venues delivered in that transaction
Submit(ok, realized) ==
  /\ trade.pc = "submit"
  /\ ~ok => realized = 0
  /\ trade' = [trade EXCEPT !.submitted = TRUE,
                            !.pc = IF ok THEN "done" ELSE "failed",
                            !.err = IF ok THEN "" ELSE "aggregateSwap failed",
                            !.realized = realized,
                            !.reported = IF ok THEN ReportedTotal(result.totalAmountOut, realized)
                                         ELSE Undefined]
  /\ UNCHANGED <<amounts, optPc, result, refResult>>
  /\ UNCHANGED setVars
  /\ UNCHANGED probe

(***************************************************************************)
(* utils.ts isContractExist, uniswapv3.ts isPoolExist and aggregator.ts    *)
(* getPoolAddress: one call each, on what the provider or the factory      *)
(* answers (or fails to answer).                                           *)
(***************************************************************************)
\* what provider.getCode may return
Codes == {"", "0x", "0x0", "0x00", "0x6080"}

\* utils.ts lines 4-9: code is [threw, value], the outcome of getCode
isContractExistNoLengthCheck(code) ==
  IF code.threw THEN FALSE
  ELSE code.value # "0x"

isContractExist(code) ==
  IF code.threw THEN FALSE
  ELSE code.value # "0x" /\ Len(code.value) > 2

\* uniswapv3.ts lines 70-73, on the address factory.getPool returned
isPoolExistAlways(poolAddress) == TRUE

isPoolExist(poolAddress) ==
  IF poolAddress = ZeroAddress THEN FALSE ELSE TRUE

\* what factory.getPool(tokenIn, tokenOut, fee) may return: the zero address,
\* or the pool of the sorted pair when the assets differ
FactoryAnswers(tokenIn, tokenOut, fee) ==
  {ZeroAddress} \cup
    IF tokenIn = tokenOut THEN {}
    ELSE {IF tokenIn < tokenOut THEN computePoolAddress(tokenIn, tokenOut, fee).pool
          ELSE computePoolAddress(tokenOut, tokenIn, fee).pool}

Outcomes(S) == {[threw |-> TRUE, value |-> x] : x \in {CHOOSE y \in S : TRUE}}
                 \cup {[threw |-> FALSE, value |-> x] : x \in S}

\* uniswapv3.ts line 16: isPoolExist(...) is called without await, so the
\* value tested is the promise, whatever it settles to
PromiseOf(outcome) == [kind |-> "Promise", outcome |-> outcome]

\* JavaScript !v: an object is truthy
JsNot(v) == IF v.kind = "Promise" THEN FALSE ELSE ~v.bool

\* what the calls quote(i * eachPart), i = 1..parts, may answer: amounts, or
\* a rejection; for a pool that does not exist the quoter call reverts
QuoteAnswers(pool, nParts) ==
  LET all == [1..nParts -> {[threw |-> TRUE, value |-> 0]}
                            \cup {[threw |-> FALSE, value |-> v] : v \in 0..MaxQuote}]
  IN IF pool.threw \/ pool.value = ZeroAddress
     THEN {q \in all : \A i \in 1..nParts : q[i].threw}
     ELSE all

\* uniswapv3.ts lines 19-24: the loop over the parts from i on; amountOuts is
\* the row so far, quoted the number of quote calls issued
RECURSIVE QuoteLoop(_, _, _, _, _)
QuoteLoop(quotes, nParts, i, amountOuts, quoted) ==
  IF i > nParts THEN [threw |-> FALSE, row |-> amountOuts, quoted |-> quoted]
  ELSE IF quotes[i].threw THEN [threw |-> TRUE, row |-> <<>>, quoted |-> quoted + 1]
  ELSE QuoteLoop(quotes, nParts, i + 1,
                 [amountOuts EXCEPT ![i + 1] = quotes[i].value], quoted + 1)

\* uniswapv3.ts lines 11-26
quoteParts(pool, nParts, quotes) ==
  LET amountOuts == [j \in 1..(nParts + 1) |-> 0]
      exists == PromiseOf(IF pool.threw THEN [threw |-> TRUE, bool |-> FALSE]
                          ELSE [threw |-> FALSE, bool |-> isPoolExist(pool.value)])
  IN IF JsNot(exists) THEN [threw |-> FALSE, row |-> amountOuts, quoted |-> 0]
     ELSE QuoteLoop(quotes, nParts, 1, amountOuts, 0)

QueryInit ==
  /\ amounts = <<>>
  /\ optPc = "off"
  /\ result = NoResult
  /\ refResult = NoRefResult
  /\ trade = NoTrade
  /\ SettlementIdle
  /\ \/ \E contract \in Accounts, code \in Outcomes(Codes) :
          probe = [NoProbe EXCEPT !.pc = "ask", !.fn = "isContractExist",
                                  !.contract = contract, !.code = code]
     \/ \E fn \in {"isPoolExist", "getPoolAddress"}, tokenIn \in Tokens,
           tokenOut \in Tokens, i \in DOMAIN fees :
          \E pool \in Outcomes(FactoryAnswers(tokenIn, tokenOut, fees[i])) :
            probe = [NoProbe EXCEPT !.pc = "ask", !.fn = fn, !.tokenIn = tokenIn,
                                    !.tokenOut = tokenOut, !.fee = fees[i], !.pool = pool]
     \/ \E i \in DOMAIN fees, nParts \in 0..MaxParts :
          \E pool \in Outcomes(FactoryAnswers(TradeTokenIn, TradeTokenOut, fees[i])) :
            \E quotes \in QuoteAnswers(pool, nParts) :
              probe = [NoProbe EXCEPT !.pc = "ask", !.fn = "quoteParts",
                                      !.tokenIn = TradeTokenIn, !.tokenOut = TradeTokenOut,
                                      !.fee = fees[i], !.pool = pool,
                                      !.parts = nParts, !.quotes = quotes]

\* utils.ts lines 3-10
IsContractExist ==
  /\ probe.pc = "ask" /\ probe.fn = "isContractExist"
  /\ probe' = [probe EXCEPT !.pc = "done", !.out.bool = isContractExist(probe.code)]
  /\ UNCHANGED <<amounts, optPc, result, refResult, trade>>
  /\ UNCHANGED setVars

\* uniswapv3.ts lines 55-74: the await of getPool rejects or the answer is tested
IsPoolExist ==
  /\ probe.pc = "ask" /\ probe.fn = "isPoolExist"
  /\ probe' = IF probe.pool.threw
               THEN [probe EXCEPT !.pc = "done", !.out.threw = TRUE]
               ELSE [probe EXCEPT !.pc = "done", !.out.bool = isPoolExist(probe.pool.value)]
  /\ UNCHANGED <<amounts, optPc, result, refResult, trade>>
  /\ UNCHANGED setVars

\* aggregator.ts lines 44-69
GetPoolAddress ==
  /\ probe.pc = "ask" /\ probe.fn = "getPoolAddress"
  /\ probe' = IF probe.pool.threw \/ getPoolAddress(probe.pool.value).threw
               THEN [probe EXCEPT !.pc = "done", !.out.threw = TRUE]
               ELSE [probe EXCEPT !.pc = "done",
                                  !.out.address = getPoolAddress(probe.pool.value).value]
  /\ UNCHANGED <<amounts, optPc, result, refResult, trade>>
  /\ UNCHANGED setVars

\* uniswapv3.ts lines 11-26
QuotePartsCall ==
  /\ probe.pc = "ask" /\ probe.fn = "quoteParts"
  /\ LET q == quoteParts(probe.pool, probe.parts, probe.quotes)
     IN probe' = [probe EXCEPT !.pc = "done", !.out.threw = q.threw,
                               !.out.row = q.row, !.out.quoted = q.quoted]
  /\ UNCHANGED <<amounts, optPc, result, refResult, trade>>
  /\ UNCHANGED setVars

QueryNext == IsContractExist \/ IsPoolExist \/ GetPoolAddress \/ QuotePartsCall

QuerySpec == QueryInit /\ [][QueryNext]_vars

\* the solver package: findBestDistribution called directly on any matrix, or
\* a run of aggregateTrade
SolverInit == OptInit \/ TradeInit

SolverNext ==
  \/ Optimize
  \/ \E row \in Rows(QuoteDefaultParts) : QuoteParts(row)
  \/ QuotePartsThrows
  \/ TradeOptimize
  \/ \E decimals \in DecimalsSet, ok \in BOOLEAN : ReadDecimals(decimals, ok)
  \/ \E poolAddress \in Pools \cup {ZeroAddress} \cup GetPoolAnswers(FeeHigh) :
        BuildRoute(poolAddress)
  \/ CheckRoutes
  \/ \E allowance \in Allowances, outcome \in {"ok", "read fails", "tx fails"} :
        Approve(allowance, outcome)
  \/ \E ok \in BOOLEAN, realized \in RealizedTotals : Submit(ok, realized)

SolverSpec == SolverInit /\ [][SolverNext]_vars

(***************************************************************************)
(* What the optimizer is specified to compute, stated independently of     *)
(* both implementations: the exhaustive maximum over all integer splits    *)
(* and the split fixed by the lower-k tie-break rule.                      *)
(***************************************************************************)
RECURSIVE SumSeq(_)
SumSeq(q) == IF q = <<>> THEN 0 ELSE Head(q) + SumSeq(Tail(q))

MaxOf(S) == CHOOSE x \in S : \A y \in S : y <= x
MinOf(S) == CHOOSE x \in S : \A y \in S : x <= y

\* the number of parts of a well-formed matrix: its row length minus one
PartsOf(m) == Len(m[1]) - 1

Splits(K, n) == {d \in [1..K -> 0..n] : SumSeq(d) = n}
SplitValue(m, d) == SumSeq([i \in 1..Len(m) |-> m[i][d[i] + 1]])
BestSplitValue(m) == MaxOf({SplitValue(m, d) : d \in Splits(Len(m), PartsOf(m))})

\* best[i][s] of the specification (0-based i), by its recurrence
RECURSIVE Best(_, _, _)
Best(m, i, s) ==
  IF i = 0 THEN m[1][s + 1]
  ELSE MaxOf({Best(m, i - 1, s - k) + m[i + 1][k + 1] : k \in 0..s})

\* from[i][s] under the tie-break rule: s - k for the smallest maximising k
RuleFrom(m, i, s) ==
  IF i = 0 THEN 0
  ELSE s - MinOf({k \in 0..s :
                   Best(m, i - 1, s - k) + m[i + 1][k + 1] = Best(m, i, s)})

RECURSIVE RuleWalk(_, _, _, _)
RuleWalk(m, i, left, d) ==
  IF i < 0 \/ left <= 0 THEN d
  ELSE RuleWalk(m, i - 1, RuleFrom(m, i, left),
                [d EXCEPT ![i + 1] = left - RuleFrom(m, i, left)])

RuleDistribution(m) ==
  RuleWalk(m, Len(m) - 1, PartsOf(m), [i \in 1..Len(m) |-> 0])

Optimized == optPc = "done" /\ amounts # <<>>

(***************************************************************************)
(* C2: for every quote matrix with K >= 1 venues and rows of length        *)
(* parts+1, the total output returned by findBestDistribution equals the   *)
(* maximum, over all non-negative integer splits of parts among the        *)
(* venues, of the summed quotes.                                           *)
(***************************************************************************)
C2_TotalIsMaximum ==
  Optimized => result.totalAmountOut = Num(BestSplitValue(amounts))

\* the same statement for the reference DP of the documentation
RefTotalIsMaximum ==
  Optimized => refResult.returnAmount = BestSplitValue(amounts)

(***************************************************************************)
(* C3: the distribution returned by findBestDistribution has exactly K     *)
(* entries, each a non-negative integer, and they sum to exactly parts     *)
(* (the row length minus one).                                             *)
(***************************************************************************)
C3_DistributionSumsToParts ==
  Optimized =>
    /\ Len(result.distribution) = Len(amounts)
    /\ \A i \in DOMAIN result.distribution : result.distribution[i] \in Nat
    /\ SumSeq(result.distribution) = PartsOf(amounts)

\* the same statement for the reference DP of the documentation
RefDistributionSumsToParts ==
  Optimized =>
    /\ Len(refResult.distribution) = Len(amounts)
    /\ \A i \in DOMAIN refResult.distribution : refResult.distribution[i] \in Nat
    /\ SumSeq(refResult.distribution) = PartsOf(amounts)

(***************************************************************************)
(* C9: for the quote matrix [[0,100,200,300],[0,150,250,350],              *)
(* [0,120,220,320]] with parts = 3 the optimizer returns totalOutput = 350 *)
(* and exactly the distribution [0,3,0].                                   *)
(***************************************************************************)
C9_ExampleIs350 ==
  optPc = "done" /\ amounts = ExampleAmounts =>
    /\ refResult.returnAmount = 350
    /\ refResult.distribution = <<0, 3, 0>>

\* C9 as amended: on that matrix the reference optimizer of the example
\* returns totalOutput = 370 and exactly the distribution [1,1,1].
C9_ExampleIs370 ==
  optPc = "done" /\ amounts = ExampleAmounts =>
    /\ refResult.returnAmount = 370
    /\ refResult.distribution = <<1, 1, 1>>

C9_Witness == optPc = "done" /\ amounts = ExampleAmounts

(***************************************************************************)
(* C10: for every venue i >= 1 and every part count s, among the           *)
(* allocations k in 0..s that maximise best[i-1][s-k] + amounts[i][k] the  *)
(* optimizer selects the smallest k (the back-pointer is the largest s-k   *)
(* attaining the maximum), and the returned distribution is the one fixed  *)
(* by this rule.                                                           *)
(***************************************************************************)
C10_TieBreakLowestK ==
  Optimized =>
    /\ \A i \in 1..(Len(amounts) - 1) : \A s \in 0..PartsOf(amounts) :
         Cell(amounts, i, s).parent = RuleFrom(amounts, i, s)
    /\ result.distribution = RuleDistribution(amounts)

\* the same statement for the reference DP of the documentation
RefTieBreakLowestK ==
  Optimized =>
    /\ \A i \in 1..(Len(amounts) - 1) : \A s \in 0..PartsOf(amounts) :
         RefRow(amounts, PartsOf(amounts), i)[s + 1].parent = RuleFrom(amounts, i, s)
    /\ refResult.distribution = RuleDistribution(amounts)

(***************************************************************************)
(* C1: if a leg's callback has its ledger transferFrom rejected, or any    *)
(* other failure occurs while legs execute or at the final check, then     *)
(* when aggregateSwap returns every ledger balance equals its value before *)
(* the call, payments and deliveries of earlier legs included, and the     *)
(* call reports the failure, never a success.                              *)
(***************************************************************************)
C1_FailureRestoresBalances ==
  /\ ret.outcome = "Aborted" => bal = ret.entry.bal /\ payer = ret.entry.payer
  /\ ret.rejected => ret.outcome = "Aborted" /\ ret.err = "TransferTokenInFailed"

\* the second leg's transferFrom is rejected after the first leg was paid and
\* delivered
C1_Witness ==
  /\ ret.outcome = "Aborted"
  /\ ret.rejected
  /\ ret.legs = 2
  /\ ret.delivered > 0

(***************************************************************************)
(* C4: whenever uniswapV3SwapCallback is invoked by a caller different     *)
(* from computePoolAddress(token0, token1, poolFee) of the context it is   *)
(* given, it fails and performs no ledger transfer, whatever the assets,   *)
(* fee tier, amounts and payer binding, in or out of a settlement.         *)
(***************************************************************************)
C4_ForgedCallbackFails ==
  cb.ran /\ (cb.expected.reverted \/ cb.expected.pool # cb.caller) =>
    cb.err # "" /\ cb.transfer = NoTransfer

\* a rogue account calls the callback with the context of a real venue while
\* a settlement is in progress and the payer is bound
C4_Witness ==
  /\ cb.ran /\ cb.direct
  /\ cb.caller = Rogue
  /\ ~cb.expected.reverted
  /\ stack # <<>>
  /\ cb.boundPayer = Alice

(***************************************************************************)
(* C5: every callback accepted while an aggregateSwap invocation started   *)
(* by initiator A is executing debits A, also when a second invocation by  *)
(* another initiator B was entered meanwhile by re-entry from a venue or   *)
(* from the ledger's transferFrom.                                         *)
(***************************************************************************)
C5_DebitedIsInitiator ==
  cb.ran /\ ~cb.direct /\ cb.err = "" /\ cb.transfer # NoTransfer =>
    cb.transfer.from = cb.initiator

C7_SlippageGuard ==
  ret.outcome = "Committed" \/ ret.err = SlippageError =>
    /\ ret.legs = ret.rLen
    /\ ret.outcome = "Committed" <=> ret.delivered >= ret.minAmountOut
    /\ ret.outcome # "Committed" =>
         /\ ret.outcome = "Aborted"
         /\ ret.err = SlippageError
         /\ bal = ret.entry.bal

\* two legs delivered exactly minAmountOut and the call committed
C7_Witness ==
  /\ ret.outcome = "Committed"
  /\ ret.legs = 2
  /\ ret.minAmountOut > 0
  /\ ret.delivered = ret.minAmountOut

(***************************************************************************)
(* C8: aggregateSwap fails with DeadlinePassed if and only if currentTime  *)
(* > deadline at entry (currentTime = deadline is accepted), and then it   *)
(* fails before the payer is bound, before any venue swap and before any   *)
(* ledger transfer.                                                        *)
(***************************************************************************)
C8_DeadlineGuard ==
  ret.outcome = "Entered" \/ ret.err = "DeadlinePassed" =>
    /\ ret.err = "DeadlinePassed" <=> CurrentTime > ret.deadline
    /\ ret.err = "DeadlinePassed" =>
         /\ ret.outcome = "Aborted"
         /\ payer = ret.entry.payer
         /\ bal = ret.entry.bal
         /\ ret.legs = 0
         /\ ret.delivered = 0
    /\ ret.outcome = "Entered" => payer = ret.sender

\* the first call of a transaction, with routes, arrives after its deadline
C8_Witness ==
  /\ ret.err = "DeadlinePassed"
  /\ ret.rLen = 2
  /\ ret.entry.payer = ZeroAddress

(***************************************************************************)
(* C11: for every quote matrix with exactly one venue and a row of length  *)
(* parts+1, findBestDistribution returns distribution = [parts] and        *)
(* totalOutput = amounts[0][parts].                                        *)
(***************************************************************************)
C11_SingleVenue ==
  Optimized /\ Len(amounts) = 1 =>
    /\ result.distribution = <<PartsOf(amounts)>>
    /\ result.totalAmountOut = Num(amounts[1][PartsOf(amounts) + 1])

\* the same statement for the reference DP of the documentation
RefSingleVenue ==
  Optimized /\ Len(amounts) = 1 =>
    /\ refResult.distribution = <<PartsOf(amounts)>>
    /\ refResult.returnAmount = amounts[1][PartsOf(amounts) + 1]

(***************************************************************************)
(* C12: for every quote matrix M and the matrix M' obtained by appending a *)
(* venue whose row is all zeros, findBestDistribution(M') returns the same *)
(* total output as findBestDistribution(M), assigns 0 parts to the         *)
(* appended venue and gives the original venues the same distribution.     *)
(***************************************************************************)
ZeroRow(m) == [j \in 1..Len(m[1]) |-> 0]
WithZeroVenue(m) == Append(m, ZeroRow(m))

C13_TotalIsValueOfDistribution ==
  Optimized =>
    /\ Len(result.distribution) = Len(amounts)
    /\ \A i \in DOMAIN result.distribution :
         result.distribution[i] \in 0..PartsOf(amounts)
    /\ result.totalAmountOut = Num(SplitValue(amounts, result.distribution))

\* the same statement for the reference DP of the documentation
RefTotalIsValueOfDistribution ==
  Optimized =>
    /\ Len(refResult.distribution) = Len(amounts)
    /\ \A i \in DOMAIN refResult.distribution :
         refResult.distribution[i] \in 0..PartsOf(amounts)
    /\ refResult.returnAmount = SplitValue(amounts, refResult.distribution)

(***************************************************************************)
(* C14: findBestDistribution called with an empty venue list fails with an *)
(* error and returns no result; this is the only input on which it fails;  *)
(* and in aggregateTrade the failure comes before any route is built, any  *)
(* approval is sent or any settlement is submitted.                        *)
(***************************************************************************)
C14_ThrowsOnlyWithoutVenues ==
  /\ optPc = "done" => (result.threw <=> amounts = <<>>)
  /\ result.threw =>
       /\ result.distribution = <<>>
       /\ result.totalAmountOut = Undefined
       /\ trade.routes = <<>>
       /\ ~trade.approveSent
       /\ ~trade.submitted
       /\ trade.pc \in {"off", "failed"}

\* findBestDistribution was called with no venue
C14_Witness ==
  /\ optPc = "done"
  /\ amounts = <<>>
  /\ result.threw

(***************************************************************************)
(* C15: a callback whose caller passes the identity check but arrives      *)
(* while no payer is bound fails and performs no ledger transfer; the      *)
(* identity check comes before the payer check, so a forged caller is      *)
(* rejected as untrusted even when no payer is bound.                      *)
(***************************************************************************)
C15_PayerNotBound ==
  cb.ran /\ cb.boundPayer = ZeroAddress =>
    /\ cb.transfer = NoTransfer
    /\ cb.err = IF cb.expected.reverted THEN "token0 must be < token1"
                ELSE IF cb.caller # cb.expected.pool THEN "invalid caller"
                ELSE "no payer registered"

\* a real venue calls the callback before any aggregateSwap has bound a payer
C15_Witness ==
  /\ cb.ran /\ cb.direct
  /\ cb.boundPayer = ZeroAddress
  /\ ~cb.expected.reverted
  /\ cb.caller = cb.expected.pool
  /\ cb.err = "no payer registered"

(***************************************************************************)
(* C16: in every reachable state, during and after any sequence of         *)
(* aggregateSwap invocations and callbacks, the router's balance of every  *)
(* asset equals its initial value; every input payment goes from the payer *)
(* to the venue and every venue delivery is addressed to the initiator of  *)
(* the invocation, never to the router.                                    *)
(***************************************************************************)
C16_RouterHoldsNothing ==
  /\ \A t \in Tokens : bal[t][Router] = InitBal[t][Router]
  /\ cb.transfer # NoTransfer =>
       /\ cb.transfer.from = cb.boundPayer
       /\ cb.transfer.to = cb.caller
       /\ cb.transfer.to # Router
  /\ cb.ran /\ ~cb.direct =>
       /\ cb.recipient = cb.initiator
       /\ cb.recipient # Router

\* a two-leg settlement has committed: the venues delivered and were paid
C16_Witness ==
  /\ ret.outcome = "Committed"
  /\ ret.legs = 2
  /\ ret.delivered = 2
  /\ bal # InitBal

(***************************************************************************)
(* C17: within one aggregateSwap invocation the venue swap for route i+1   *)
(* is invoked only after the swap for route i, its payment callback        *)
(* included, has returned; legs start in the order of the route list and   *)
(* no two legs of one invocation are in flight at the same time.           *)
(***************************************************************************)
LegsInFlight(f) == IF f.pc \in {"venue", "ledger", "paid"} THEN 1 ELSE 0

PositiveIndices(d) == SelectSeq([i \in 1..Len(d) |-> i], LAMBDA i : d[i] > 0)

C18_RoutesFollowDistribution ==
  trade.pc \in {"approve", "submit", "done"} =>
    LET d == result.distribution
        idx == PositiveIndices(d)
    IN /\ Len(trade.routes) = Len(idx)
       /\ \A j \in 1..Len(idx) :
            /\ j \in DOMAIN trade.routes
            /\ trade.routes[j].fee = fees[idx[j]]
            /\ trade.routes[j].tokenIn = TradeTokenIn
            /\ trade.routes[j].tokenOut = TradeTokenOut
            /\ trade.routes[j].amountIn * TradeParts =
                 d[idx[j]] * trade.AmountIn * Pow10(trade.tokenInDecimals)

\* a run has submitted its routes; some venue had no allocation
C18_Witness ==
  /\ trade.pc = "done"
  /\ trade.routes # <<>>
  /\ \E i \in DOMAIN result.distribution : result.distribution[i] = 0

C21_ReportsRealizedTotal ==
  trade.pc = "done" => trade.reported = Num(trade.realized)

\* C21 as amended: aggregateSwap returns no value, and the total
\* aggregateTrade reports after a successful settlement is the totalAmountOut
\* findBestDistribution returned for the quotes, whatever was realized.
C21_ReportsOptimizerTotal ==
  trade.pc = "done" =>
    /\ trade.submitted
    /\ trade.reported = result.totalAmountOut

\* a run succeeded and the settlement realized a positive output
C21_Witness ==
  /\ trade.pc = "done"
  /\ trade.realized > 0
  /\ trade.reported # Num(trade.realized)

\* the amountIn of the routes built so far, and the total input in base units
RouteAmounts == [j \in 1..Len(trade.routes) |-> trade.routes[j].amountIn]
TotalInput == trade.AmountIn * Pow10(trade.tokenInDecimals)

(***************************************************************************)
(* C27: the amountIn of the routes submitted to the settlement sum to      *)
(* exactly the user's total input AmountIn, the allocations summing to     *)
(* parts.                                                                  *)
(***************************************************************************)
C27_RoutesSumToAmountIn ==
  trade.submitted => SumSeq(RouteAmounts) = TotalInput

\* the steps of aggregateTrade in the order of the code
TradeOrder ==
  {<<"quote", "quote">>, <<"quote", "optimize">>, <<"optimize", "decimals">>,
   <<"decimals", "build">>, <<"build", "build">>, <<"build", "approve">>,
   <<"approve", "submit">>, <<"submit", "done">>}
    \cup {<<p, "failed">> : p \in {"quote", "optimize", "decimals", "build", "approve", "submit"}}

(***************************************************************************)
(* C28: the steps of aggregateTrade happen in the order quote, optimize,   *)
(* build, (approve), submit; aggregateSwap is submitted at most once and   *)
(* only after every earlier step succeeded; after a failure no later step  *)
(* is taken and nothing is retried.                                        *)
(***************************************************************************)
C28_WorkflowOrder ==
  /\ [](trade.pc # "off" =>
         /\ (trade.err # "" <=> trade.pc = "failed")
         /\ trade.approveSent => /\ trade.pc \in {"submit", "done", "failed"}
                                 /\ trade.routes # <<>>
         /\ trade.submitted =>
              /\ trade.pc \in {"done", "failed"}
              /\ trade.err \in {"", "aggregateSwap failed"}
              /\ Len(amounts) = NumFeeTiers
              /\ optPc = "done" /\ ~result.threw
              /\ trade.i = Len(result.distribution)
              /\ trade.routes # <<>>)
  /\ [][trade.pc # "off" =>
         /\ <<trade.pc, trade'.pc>> \in TradeOrder
         /\ trade.pc \in {"failed", "done"} => trade' = trade
         /\ trade'.submitted # trade.submitted => trade.pc = "submit"
         /\ trade'.approveSent # trade.approveSent => trade.pc = "approve"]_trade

\* a run failed at the approval, after the routes were built
C28_Witness ==
  /\ trade.pc = "failed"
  /\ trade.err = "approve failed"
  /\ trade.approveSent
  /\ ~trade.submitted

(***************************************************************************)
(* C29: an approval is sent exactly when the allowance read is below the   *)
(* total input, aggregateSwap is submitted only after that approval is     *)
(* confirmed, and so at submission the allowance of the router covers the  *)
(* sum of the routes' amountIn.                                            *)
(***************************************************************************)
C29_AllowanceCoversRoutes ==
  /\ trade.pc \in {"submit", "done"} =>
        (trade.approveSent <=> trade.allowance < TotalInput)
  /\ trade.submitted =>
        \/ trade.approveSent
        \/ trade.allowance >= SumSeq(RouteAmounts)

\* the identity derived from the sorted asset pair and the fee of a route
DerivedIdentity(r) ==
  computePoolAddress(MinOf({r.tokenIn, r.tokenOut}), MaxOf({r.tokenIn, r.tokenOut}),
                     r.fee).pool

(***************************************************************************)
(* C26: the venue's swap is invoked for a leg only if the route's pair     *)
(* equals the identity derived from its sorted asset pair and fee;         *)
(* otherwise the whole settlement aborts before the venue is called and    *)
(* the payments of earlier legs are rolled back.                           *)
(***************************************************************************)
C26_PairMustMatch ==
  /\ \A k \in DOMAIN stack :
       stack[k].pc \in {"venue", "ledger", "paid"} =>
         /\ stack[k].r.tokenIn # stack[k].r.tokenOut
         /\ stack[k].r.pair = DerivedIdentity(stack[k].r)
  /\ ret.err = "invalid pool address" =>
       /\ ret.outcome = "Aborted"
       /\ ret.r.tokenIn # ret.r.tokenOut
       /\ ret.r.pair # DerivedIdentity(ret.r)
       /\ ret.legs = ret.i
       /\ bal = ret.entry.bal
       /\ payer = ret.entry.payer
       /\ Len(stack) = ret.depth - 1

\* the second leg names a pair that is not the derived identity, after the
\* first leg was paid and delivered
C26_Witness ==
  /\ ret.err = "invalid pool address"
  /\ ret.i = 1
  /\ ret.delivered > 0
  /\ ret.r.tokenIn # ret.r.tokenOut
  /\ ret.r.pair \in Pools

\* the callback passed its checks on the caller and on the payer
CallbackAccepted ==
  cb.ran /\ cb.err \notin {"token0 must be < token1", "invalid caller", "no payer registered"}

\* exactly one of the two amounts of the callback is positive
OnePositiveAmount ==
  (cb.amount0Delta > 0) # (cb.amount1Delta > 0)

(***************************************************************************)
(* C25: an accepted callback with exactly one positive amount asks the     *)
(* ledger for exactly one transferFrom: of the asset on the positive side, *)
(* of that amount, from the bound payer to the calling venue; if the       *)
(* ledger answers false the callback fails with TransferTokenInFailed      *)
(* carrying the asset, the payer and the amount.                           *)
(***************************************************************************)
C25_CallbackPaysPositiveSide ==
  /\ CallbackAccepted /\ OnePositiveAmount =>
       /\ cb.asked.asset = IF cb.amount0Delta > 0 THEN cb.data.token0 ELSE cb.data.token1
       /\ cb.asked.amount = IF cb.amount0Delta > 0 THEN cb.amount0Delta ELSE cb.amount1Delta
       /\ cb.asked.from = cb.boundPayer
       /\ cb.asked.to = cb.caller
       /\ cb.transfer \in {NoTransfer, cb.asked}
  /\ cb.answered /\ ~cb.success =>
       /\ cb.err = "TransferTokenInFailed"
       /\ cb.failedWith.asset = cb.asked.asset
       /\ cb.failedWith.from = cb.asked.from
       /\ cb.failedWith.amount = cb.asked.amount
       /\ cb.transfer = NoTransfer
  /\ cb.answered /\ cb.success => cb.err = "" /\ cb.failedWith = NoTransfer

\* a venue calls back for asset 1 of its pair and the ledger refuses the
\* transfer from the bound payer
C25_Witness ==
  /\ CallbackAccepted /\ OnePositiveAmount
  /\ cb.amount1Delta > 0
  /\ cb.asked.asset = TokenB
  /\ cb.answered /\ ~cb.success
  /\ cb.failedWith.from = Alice

\* the running invocation after the step
TopAfter == stack'[Len(stack')]

(***************************************************************************)
(* C22: an invocation of aggregateSwap moves only from its start through   *)
(* the legs 0, 1, ..., n-1 in this order to the final check and from there *)
(* to Committed, or from any of these to Aborted; Committed is reached     *)
(* only after all n legs and the minimum-output check; and provided every  *)
(* venue call returns, every invocation eventually reaches one of          *)
(* Committed and Aborted.                                                  *)
(***************************************************************************)
C22_InvocationLifecycle ==
  /\ [][/\ stack = <<>> /\ stack' # <<>> =>
            TopAfter.i = 0 /\ TopAfter.legs = 0 /\ TopAfter.pc = "loop"
        /\ stack # <<>> /\ stack' # <<>> =>
            /\ Len(stack') = Len(stack)
            /\ TopAfter.i \in {Top.i, Top.i + 1}
            /\ TopAfter.i = Top.i + 1 => Top.pc = "paid" /\ TopAfter.pc = "loop"
            /\ TopAfter.i <= Top.rLen
            /\ TopAfter.legs \in {TopAfter.i, TopAfter.i + 1}
            /\ TopAfter.pc = "loop" <=> TopAfter.legs = TopAfter.i
        /\ stack # <<>> /\ stack' = <<>> =>
            /\ ret'.outcome \in {"Committed", "Aborted"}
            /\ ret'.outcome = "Committed" =>
                 /\ Top.pc = "loop" /\ Top.i = Top.rLen
                 /\ ret'.legs = ret'.rLen
                 /\ ret'.totalAmountOut >= ret'.minAmountOut
                 /\ bal' = bal
            /\ ret'.outcome = "Aborted" => bal' = Top.snap.bal]_vars
  /\ (stack # <<>>) ~> (stack = <<>> /\ ret.outcome \in {"Committed", "Aborted"})

\* an invocation with two legs committed
C22_Witness ==
  /\ ret.outcome = "Committed"
  /\ ret.rLen = 2
  /\ ret.legs = 2
  /\ stack = <<>>

\* best[K-1][parts] of the matrix that was optimized
FinalValue == Best(amounts, Len(amounts) - 1, PartsOf(amounts))

(***************************************************************************)
(* C30: whenever the final DP value best[K-1][parts] equals the very       *)
(* negative sentinel, the optimizer reports total output 0 and a           *)
(* distribution whose entries are all 0; in every other case the reported  *)
(* total is the final DP value itself.                                     *)
(***************************************************************************)
C30_SentinelResult ==
  Optimized =>
    IF FinalValue = VERY_NEGATIVE_VALUE
    THEN /\ refResult.returnAmount = 0
         /\ \A i \in DOMAIN refResult.distribution : refResult.distribution[i] = 0
    ELSE refResult.returnAmount = FinalValue

\* what the reference DP does report: the total as claimed, with the
\* distribution its reconstruction yields, which allocates every part
C30_SentinelTotalOnly ==
  Optimized =>
    /\ refResult.returnAmount = IF FinalValue = VERY_NEGATIVE_VALUE THEN 0 ELSE FinalValue
    /\ SumSeq(refResult.distribution) = PartsOf(amounts)

(***************************************************************************)
(* C23: isContractExist never throws; it returns true exactly when the     *)
(* provider returns code that is not "0x" and is longer than 2 characters, *)
(* false when the code is empty, and false (not the error) when the        *)
(* provider call fails.                                                    *)
(***************************************************************************)
C23_IsContractExist ==
  probe.pc = "done" /\ probe.fn = "isContractExist" =>
    /\ ~probe.out.threw
    /\ probe.out.bool <=>
         /\ ~probe.code.threw
         /\ probe.code.value \in {c \in Codes : c # "0x" /\ Len(c) > 2}
    /\ probe.code.threw => ~probe.out.bool
    /\ ~probe.code.threw /\ probe.code.value = "0x" => ~probe.out.bool

\* the provider call failed and isContractExist returned false
C23_Witness ==
  /\ probe.pc = "done" /\ probe.fn = "isContractExist"
  /\ probe.code.threw
  /\ ~probe.out.threw /\ ~probe.out.bool

ReportedForAssetOut(f) ==
  IF f.r.tokenOut > f.r.tokenIn THEN f.amount1 ELSE f.amount0

\* the amount the venue reports for the input asset of the leg in flight
ReportedForAssetIn(f) ==
  IF f.r.tokenOut > f.r.tokenIn THEN f.amount0 ELSE f.amount1

(***************************************************************************)
(* C31: for every leg the swap direction is zeroForOne exactly when        *)
(* assetIn < assetOut, and the output recorded for the leg is the negation *)
(* of the amount the venue reports for assetOut; the total checked at the  *)
(* end is the sum (in uint256 arithmetic) of these recorded outputs over    *)
(* all legs of the invocation and of no other invocation.                  *)
(***************************************************************************)
C31_PerLegOutcome ==
  /\ \A k \in DOMAIN stack :
       LET f == stack[k]
       IN /\ f.pc \in {"ledger", "paid"} =>
               /\ ReportedForAssetIn(f) = f.r.amountIn
               /\ f.amount0 > 0 <=> f.r.tokenIn < f.r.tokenOut
               /\ f.pend # NoTransfer => f.pend.asset = f.r.tokenIn
               /\ Uint(f.totalAmountOut + (-ReportedForAssetOut(f))) = Uint(f.delivered)
          /\ f.pc \in {"loop", "venue"} => f.totalAmountOut = Uint(f.delivered)
  /\ ret.outcome = "Committed" \/ ret.err = SlippageError =>
       /\ ret.totalAmountOut = Uint(ret.delivered)
       /\ ret.outcome = "Committed" <=> ret.totalAmountOut >= ret.minAmountOut

\* a nested invocation committed on its own total while a leg of the outer
\* invocation, which has delivered already, is in flight
C31_Witness ==
  /\ ret.outcome = "Committed"
  /\ ret.depth = 2
  /\ ret.delivered = 1
  /\ ret.minAmountOut = 1
  /\ stack # <<>>
  /\ Top.delivered = 2

\* the invocation that returned got as far as the check of line 151
Finalized == ret.outcome = "Committed" \/ ret.err = SlippageError

C33_MissingVenueRow ==
  probe.pc = "done" /\ probe.fn = "quoteParts" =>
    /\ ~probe.out.threw =>
         /\ Len(probe.out.row) = probe.parts + 1
         /\ probe.out.row[1] = 0
    /\ ~probe.pool.threw /\ probe.pool.value = ZeroAddress =>
         /\ ~probe.out.threw
         /\ probe.out.row = [j \in 1..(probe.parts + 1) |-> 0]
         /\ probe.out.quoted = 0

\* the part of C33 that holds: a row that is returned has length parts+1 and
\* entry 0 equal to 0
QuoteRowShape ==
  probe.pc = "done" /\ probe.fn = "quoteParts" /\ ~probe.out.threw =>
    /\ Len(probe.out.row) = probe.parts + 1
    /\ probe.out.row[1] = 0

\* the step is a callback made directly by a venue that passed the checks on
\* the caller and on the payer
AcceptedDirectCallback ==
  /\ cb'.ran /\ cb'.direct
  /\ cb'.err \notin {"token0 must be < token1", "invalid caller", "no payer registered"}

(***************************************************************************)
(* C34: an accepted callback never performs more than one ledger transfer; *)
(* when both reported amounts are <= 0 it performs no transfer and returns *)
(* without error, and when both are positive it transfers only asset0's    *)
(* amount and nothing of asset1.                                           *)
(***************************************************************************)
C34_DegenerateAmounts ==
  [][AcceptedDirectCallback =>
       /\ \/ bal' = bal
          \/ \E asset \in Tokens, amount \in 1..(UintModulus - 1) :
               bal' = Moved(bal, asset, cb'.boundPayer, cb'.caller, amount)
       /\ cb'.amount0Delta <= 0 /\ cb'.amount1Delta <= 0 =>
            /\ bal' = bal
            /\ cb'.err = ""
            /\ cb'.asked = NoTransfer
       /\ cb'.amount0Delta > 0 /\ cb'.amount1Delta > 0 =>
            /\ bal'[cb'.data.token1] = bal[cb'.data.token1]
            /\ cb'.asked.asset = cb'.data.token0
            /\ cb'.asked.amount = cb'.amount0Delta
            /\ cb'.err = "" =>
                 bal' = Moved(bal, cb'.data.token0, cb'.boundPayer, cb'.caller,
                              cb'.amount0Delta)
            /\ cb'.err # "" => bal' = bal]_vars

\* a venue called back with both amounts positive and asset0 was paid
C34_Witness ==
  /\ cb.ran /\ cb.direct
  /\ cb.amount0Delta > 0 /\ cb.amount1Delta > 0
  /\ cb.err = ""
  /\ cb.transfer # NoTransfer
  /\ cb.transfer.asset = cb.data.token0

\* a venue called back with no amount positive and nothing happened
NoAmountCallback ==
  /\ cb.ran /\ cb.direct /\ cb.err = ""
  /\ cb.boundPayer # ZeroAddress
  /\ cb.amount0Delta <= 0 /\ cb.amount1Delta < 0

(***************************************************************************)
(* C35: a route with assetIn = assetOut aborts the whole settlement before *)
(* any venue is called for that leg, and a callback whose context has      *)
(* asset0 >= asset1 always fails without any transfer, because identity    *)
(* derivation is defined only for asset0 < asset1.                         *)
(***************************************************************************)
C35_MalformedPairsRejected ==
  /\ [](/\ \A k \in DOMAIN stack :
            stack[k].pc \in {"venue", "ledger", "paid"} =>
              stack[k].r.tokenIn # stack[k].r.tokenOut
        /\ ret.r # NoRoute /\ ret.r.tokenIn = ret.r.tokenOut =>
             /\ ret.outcome = "Aborted"
             /\ ret.err = "tokenIn == tokenOut"
             /\ ret.legs = ret.i
             /\ bal = ret.entry.bal
             /\ payer = ret.entry.payer
             /\ Len(stack) = ret.depth - 1
        /\ cb.ran /\ cb.data.token0 >= cb.data.token1 =>
             /\ cb.err = "token0 must be < token1"
             /\ cb.asked = NoTransfer
             /\ cb.transfer = NoTransfer)
  /\ [][cb'.ran /\ cb'.direct /\ cb'.data.token0 >= cb'.data.token1 =>
         bal' = bal /\ payer' = payer]_vars

\* the second leg of a settlement names one asset twice, after the first
\* leg was paid and delivered
C35_Witness ==
  /\ ret.err = "tokenIn == tokenOut"
  /\ ret.r.tokenIn = ret.r.tokenOut
  /\ ret.i = 1
  /\ ret.delivered > 0

\* a venue calls back with one asset twice in its context while a payer is
\* bound
SameAssetCallback ==
  /\ cb.ran /\ cb.direct
  /\ cb.data.token0 = cb.data.token1
  /\ cb.boundPayer # ZeroAddress
  /\ cb.caller \in Pools

====
